---------------------------- MODULE Spec2Model ----------------------------
(* structural_context.py of glycobase: main_v_side_branch counts how often *)
(* a glycoletter occurs in the main chain versus a side branch of the      *)
(* glycans of a taxonomic selection, characterize_context tallies the      *)
(* partners of a glycoletter in the bond triples of that selection.        *)
(* Python strings are sequences of one-character strings, so that          *)
(* substring tests, regular-expression matches, split and concatenation    *)
(* are computed character by character.                                    *)
EXTENDS Integers, Sequences, FiniteSets

VARIABLES df_species, pc, fn, glycoletter, mode, taxonomy_filter,
          taxonomy_value, glycans_df, pool, lab, cou, cou_k, cou_v, ret

vars == <<df_species, pc, fn, glycoletter, mode, taxonomy_filter,
          taxonomy_value, glycans_df, pool, lab, cou, cou_k, cou_v, ret>>

(* ------------------------------ bounds ------------------------------- *)
\* rows of the reference table
MaxTable == 11
\* length of the enumerated bracket strings
MaxLen == 4

(* ------------------------- string literals --------------------------- *)
All == <<"A","l","l">>
Kingdom == <<"K","i","n","g","d","o","m">>
Species == <<"S","p","e","c","i","e","s">>
Bond == <<"b","o","n","d">>
Sugar == <<"s","u","g","a","r">>
SugarBond == <<"s","u","g","a","r","b","o","n","d">>
LabBond == <<"O","b","s","e","r","v","e","d"," ","m","o","n","o","s","a","c","c","h","a","r","i","d","e","s"," ","m","a","k","i","n","g"," ","b","o","n","d"," ">>
LabSugar == <<"O","b","s","e","r","v","e","d"," ","m","o","n","o","s","a","c","c","h","a","r","i","d","e","s"," ","p","a","i","r","e","d"," ","w","i","t","h"," ">>
LabSugarBond == <<"O","b","s","e","r","v","e","d"," ","b","o","n","d","s"," ","m","a","d","e"," ","b","y"," ">>
Star == "*"
Open == "["
Close == "]"

(* --------------------------- Python helpers -------------------------- *)
\* a[i:j] of Python, 0-based and end-exclusive
Slice(s, i, j) == SubSeq(s, i + 1, j)

\* `sub in s` for strings
Contains(sub, s) ==
  \E i \in 0..(Len(s) - Len(sub)) : Slice(s, i, i + Len(sub)) = sub

\* `c in s` for one character
HasChar(c, s) == \E i \in 1..Len(s) : s[i] = c

\* str(k) of a table cell: a missing cell is the float nan
str(k) == IF k.isna THEN <<"n","a","n">> ELSE k.text

\* the cells of the table
Text(s) == [isna |-> FALSE, text |-> s]
NaN == [isna |-> TRUE, text |-> << >>]

\* [m.start() for m in re.finditer(pattern, s)] for a pattern without
\* metacharacters: leftmost matches, each search resuming at the end of
\* the previous match
RECURSIVE finditer_from(_, _, _)
finditer_from(pattern, s, from) ==
  LET found == {i \in from..(Len(s) - Len(pattern)) :
                  Slice(s, i, i + Len(pattern)) = pattern}
      first == CHOOSE i \in found : \A j \in found : i <= j
  IN IF found = {} THEN << >>
     ELSE <<first>> \o finditer_from(pattern, s, first + Len(pattern))

finditer(pattern, s) == finditer_from(pattern, s, 0)

(* ------------------------ the reference table ------------------------ *)
\* glycans of the reference table and what they carry
LewisX == <<"G","a","l","(","b","1","-","4",")","[","F","u","c","(","a","1","-","3",")","]","G","l","c","N","A","c">>
LewisY == <<"F","u","c","(","a","1","-","2",")","G","a","l","(","b","1","-","4",")","[","F","u","c","(","a","1","-","3",")","]","G","l","c","N","A","c">>
PolyLacNAc == <<"G","a","l","N","A","c","(","b","1","-","4",")","G","l","c","N","A","c","(","b","1","-","3",")","G","a","l","(","b","1","-","4",")","G","l","c","N","A","c","(","b","1","-","3",")","G","a","l","(","b","1","-","4",")","G","l","c">>

RowLewisX == [glycan |-> LewisX, kingdom |-> Text(<<"B","a","c","t","e","r","i","a">>), species |-> NaN]
RowLewisY == [glycan |-> LewisY, kingdom |-> Text(<<"B","a","c","t","e","r","i","a">>), species |-> NaN]
RowPolyLacNAc ==
  [glycan |-> PolyLacNAc, kingdom |-> Text(<<"A","n","i","m","a","l","i","a">>),
   species |-> Text(<<"H","o","m","o","_","s","a","p","i","e","n","s">>)]

Catalog == {RowLewisY, RowPolyLacNAc}

\* the reference tables: the first rows, up to MaxTable of them, of one
\* record of the catalog, or of two that alternate
Periods ==
  {<<a>> : a \in Catalog}
    \cup {p \in {<<a, b>> : a \in Catalog, b \in Catalog} : p[1] # p[2]}
Periodic(period, n) == [i \in 1..n |-> period[((i - 1) % Len(period)) + 1]]
Tables == {Periodic(period, n) : period \in Periods, n \in 0..MaxTable}

\* tables of one enumerated bracket string, alone or followed by Lewis x
BranchAlphabet == {"G", Open, Close}
BranchGlycans ==
  UNION {[1..n -> BranchAlphabet] : n \in 0..MaxLen} \cup {LewisX}
BranchRow(g) ==
  [glycan |-> g, kingdom |-> Text(<<"A","n","i","m","a","l","i","a">>),
   species |-> Text(<<"H","o","m","o","_","s","a","p","i","e","n","s">>)]
BranchTables ==
  {<<BranchRow(g)>> \o rest : g \in BranchGlycans, rest \in {<< >>, <<RowLewisX>>}}

\* arguments of the calls
Glycoletters == {<<"G","a","l">>, <<"F","u","c">>, <<"b","1","-","4">>, <<"M","a","n">>}
BranchLetters == {<<"G">>, <<"G","G">>, <<"G","l","c","N","A","c">>}
Modes == {Bond, Sugar, SugarBond}
ModeArgs == Modes \cup {<<"l","i","n","k","a","g","e">>}
TaxonomyFilters == {Kingdom, Species}
TaxonomyValues == {All, << >>, <<"A","n","i","m","a","l","i","a">>, <<"a","n">>}

(* ------------------------ the taxonomic filter ----------------------- *)
\* [taxonomy_value in str(k) for k in df_species[column]]
filter_list(df, column, value) ==
  [i \in 1..Len(df) |-> Contains(value, str(df[i][column]))]

\* df[filter_list]: the rows whose mask entry is True, in table order
RECURSIVE BoolIndex(_, _, _)
BoolIndex(df, mask, i) ==
  IF i > Len(df) THEN << >>
  ELSE (IF mask[i] THEN <<df[i]>> ELSE << >>) \o BoolIndex(df, mask, i + 1)

\* a DataFrame: the names of its columns and its rows. df_species has
\* the three columns whatever its rows
Columns == {"glycan", "kingdom", "species"}
Frame(rows) == [columns |-> Columns, rows |-> rows]
NoFrame == [columns |-> {}, rows |-> << >>]

\* pandas takes the Series as a boolean mask when its dtype is bool; the
\* Series of an empty list has no bool dtype
is_bool_indexer(mask) == DOMAIN mask # {}

\* df_species[filter_list]: the rows of the mask when it is one; else the
\* Series is a list of column labels, and an empty one selects no column
GetItem(df, mask) ==
  IF is_bool_indexer(mask) THEN Frame(BoolIndex(df, mask, 1))
  ELSE [columns |-> {}, rows |-> [i \in 1..Len(df) |-> << >>]]

\* the filter without the test for 'All': 'All' is matched like any value
TaxonomicFilterNoSentinel(df, filter, value) ==
  IF filter = Kingdom
  THEN GetItem(df, filter_list(df, "kingdom", value))
  ELSE GetItem(df, filter_list(df, "species", value))

\* the filter reading the kingdom column in both branches
TaxonomicFilterKingdomOnly(df, filter, value) ==
  IF value = All THEN Frame(df)
  ELSE GetItem(df, filter_list(df, "kingdom", value))

\* the if/else that binds glycans_df, the same in both functions
TaxonomicFilter(df, filter, value) ==
  IF value = All THEN Frame(df)
  ELSE IF filter = Kingdom
       THEN GetItem(df, filter_list(df, "kingdom", value))
       ELSE GetItem(df, filter_list(df, "species", value))

\* glycans_df.glycan finds the column; without it the attribute lookup
\* raises AttributeError
HasGlycan(frame) == "glycan" \in frame.columns

\* glycans_df.glycan.values.tolist()
GlycanColumn(frame) == [i \in 1..Len(frame.rows) |-> frame.rows[i].glycan]

(* ------------------------ main_v_side_branch ------------------------- *)
\* '[' in gly and ']' not in gly
IsSide(gly) == HasChar(Open, gly) /\ ~HasChar(Close, gly)

\* the increment of main outside the else: a side occurrence counts twice
TallyBoth(acc, gly) ==
  IF IsSide(gly) THEN [acc EXCEPT !.side = @ + 1, !.main = @ + 1]
  ELSE [acc EXCEPT !.main = @ + 1]

\* the if/else that increments side or main
Tally(acc, gly) ==
  IF IsSide(gly) THEN [acc EXCEPT !.side = @ + 1]
  ELSE [acc EXCEPT !.main = @ + 1]

\* the loop without init = i: every text starts at position 0
NextInitStale(init, i) == init

\* init = i
NextInit(init, i) == i

\* for i in starts: the loop over the occurrences of one glycan
RECURSIVE ScanStarts(_, _, _, _, _)
ScanStarts(s, starts, n, init, acc) ==
  IF n > Len(starts) THEN acc
  ELSE ScanStarts(s, starts, n + 1, NextInit(init, starts[n]),
                  Tally(acc, Slice(s, init, starts[n])))

\* for k in range(len(glycan_list)): the loop over the glycans
RECURSIVE ScanGlycans(_, _, _, _)
ScanGlycans(list, letter, k, acc) ==
  IF k > Len(list) THEN acc
  ELSE ScanGlycans(list, letter, k + 1,
                   ScanStarts(list[k], finditer(letter, list[k]), 1, 0, acc))

\* main, side of a glycan list
MainSide(list, letter) == ScanGlycans(list, letter, 1, [main |-> 0, side |-> 0])

(* ----------------------- characterize_context ------------------------ *)
\* link_find of glycan_processing_helpers: the bond triples of a glycan,
\* each one 'sugar*bond*sugar', every triple once
link_find(glycan) ==
  CASE glycan = LewisX ->
         <<<<"G","a","l","*","b","1","-","4","*","G","l","c","N","A","c">>, <<"F","u","c","*","a","1","-","3","*","G","l","c","N","A","c">>>>
    [] glycan = LewisY ->
         <<<<"F","u","c","*","a","1","-","2","*","G","a","l">>, <<"G","a","l","*","b","1","-","4","*","G","l","c","N","A","c">>, <<"F","u","c","*","a","1","-","3","*","G","l","c","N","A","c">>>>
    [] glycan = PolyLacNAc ->
         <<<<"G","a","l","N","A","c","*","b","1","-","4","*","G","l","c","N","A","c">>, <<"G","l","c","N","A","c","*","b","1","-","3","*","G","a","l">>, <<"G","a","l","*","b","1","-","4","*","G","l","c","N","A","c">>,
           <<"G","a","l","*","b","1","-","4","*","G","l","c">>>>

\* [item for sublist in pool for item in sublist]
RECURSIVE Flatten(_, _)
Flatten(lists, i) ==
  IF i > Len(lists) THEN << >> ELSE lists[i] \o Flatten(lists, i + 1)

\* pool of lines 54-55
LinkPool(frame) ==
  Flatten([i \in 1..Len(frame.rows) |-> link_find(GlycanColumn(frame)[i])], 1)

\* k.split('*'): the fields between the separators
split(s, sep) ==
  LET cuts == {i \in 1..Len(s) : s[i] = sep}
      cut(n) == IF n = 0 THEN 0
                ELSE IF n > Cardinality(cuts) THEN Len(s) + 1
                ELSE CHOOSE i \in cuts : Cardinality({j \in cuts : j <= i}) = n
  IN [n \in 1..(Cardinality(cuts) + 1) |-> SubSeq(s, cut(n - 1) + 1, cut(n) - 1)]

\* k.split('*')[n], n counted from 0
Field(k, n) == split(k, Star)[n + 1]

\* the key compared with `in` instead of ==
KeyContains(key, letter) == Contains(letter, key)

\* k.split('*')[..] == glycoletter
KeyMatches(key, letter) == key = letter

\* [k.split('*')[out] for k in pool if k.split('*')[key] == glycoletter]
Select(tokens, key, out, letter) ==
  LET Test(k) == KeyMatches(Field(k, key), letter)
      chosen == SelectSeq(tokens, Test)
  IN [i \in 1..Len(chosen) |-> Field(chosen[i], out)]

\* pool after the if/elif chain; no branch is taken for another mode
SelectPool(tokens, m, letter) ==
  IF m = Bond THEN Select(tokens, 1, 0, letter)
  ELSE IF m = Sugar THEN Select(tokens, 0, 2, letter)
  ELSE IF m = SugarBond THEN Select(tokens, 0, 1, letter)
  ELSE tokens

\* lab after the if/elif chain; it stays unbound for another mode
Unbound == [bound |-> FALSE, text |-> << >>]
SelectLab(m, letter) ==
  IF m = Bond THEN [bound |-> TRUE, text |-> LabBond \o letter]
  ELSE IF m = Sugar THEN [bound |-> TRUE, text |-> LabSugar \o letter]
  ELSE IF m = SugarBond THEN [bound |-> TRUE, text |-> LabSugarBond \o letter]
  ELSE Unbound

\* Counter(pool): the elements in the order they are first met, each
\* with the number of times it is met
Counter(list) ==
  LET firsts == {i \in 1..Len(list) : \A h \in 1..(i - 1) : list[h] # list[i]}
      nth(n) == CHOOSE i \in firsts : Cardinality({j \in firsts : j <= i}) = n
  IN [n \in 1..Cardinality(firsts) |->
        [k |-> list[nth(n)],
         n |-> Cardinality({i \in 1..Len(list) : list[i] = list[nth(n)]})]]

\* a sort that puts an item before the items of equal count
BeforeStrict(sorted, item, i) == sorted[i].n > item.n

\* where sorted(.., reverse=True) puts an item among those sorted so far:
\* after every item that counts at least as much
Before(sorted, item, i) == sorted[i].n >= item.n

RECURSIVE InsertSorted(_, _, _)
InsertSorted(sorted, item, i) ==
  IF i <= Len(sorted) /\ Before(sorted, item, i)
  THEN InsertSorted(sorted, item, i + 1)
  ELSE SubSeq(sorted, 1, i - 1) \o <<item>> \o SubSeq(sorted, i, Len(sorted))

\* .most_common(): sorted(items, key = count, reverse = True), stable
RECURSIVE most_common(_, _, _)
most_common(items, i, sorted) ==
  IF i > Len(items) THEN sorted
  ELSE most_common(items, i + 1, InsertSorted(sorted, items[i], 1))

\* the count a partner must exceed to be reported
Threshold == 10

\* k[1]>=10
KeptFromTen(n) == n >= Threshold

\* k[1]>10
Kept(n) == n > Threshold

\* [k for k in cou if k[1]>10]
RECURSIVE KeepFrequent(_, _)
KeepFrequent(list, i) ==
  IF i > Len(list) THEN << >>
  ELSE (IF Kept(list[i].n) THEN <<list[i]>> ELSE << >>)
       \o KeepFrequent(list, i + 1)

\* ' (' + taxonomy_filter + ' = ' + taxonomy_value + ')'
Suffix(filter, value) == <<" ","(">> \o filter \o <<" ","="," ">> \o value \o <<")">>

(* ----------------------------- the calls ----------------------------- *)
NoRet ==
  [status |-> "none", exc |-> "none", main |-> 0, side |-> 0,
   lab |-> << >>, cou_k |-> << >>, cou_v |-> << >>]

\* no call is running
Idle == pc = "idle"

\* the locals of a call before its first statement
Locals ==
  /\ glycans_df' = NoFrame
  /\ pool' = << >>
  /\ lab' = Unbound
  /\ cou' = << >>
  /\ cou_k' = << >>
  /\ cou_v' = << >>
  /\ ret' = NoRet

\* main_v_side_branch(glycoletter, taxonomy_filter, taxonomy_value)
CallMain(letter, filter, value) ==
  /\ Idle
  /\ pc' = "mvs_filter"
  /\ fn' = "main_v_side_branch"
  /\ glycoletter' = letter
  /\ mode' = << >>
  /\ taxonomy_filter' = filter
  /\ taxonomy_value' = value
  /\ Locals
  /\ UNCHANGED df_species

\* lines 11-21: glycans_df
MvsFilter ==
  /\ pc = "mvs_filter"
  /\ glycans_df' = TaxonomicFilter(df_species, taxonomy_filter, taxonomy_value)
  /\ pc' = "mvs_count"
  /\ UNCHANGED <<df_species, fn, glycoletter, mode, taxonomy_filter,
                 taxonomy_value, pool, lab, cou, cou_k, cou_v, ret>>

\* lines 22-37: glycan_list, the two loops and the return; line 22
\* raises AttributeError when glycans_df has no glycan column
MvsCount ==
  /\ pc = "mvs_count"
  /\ IF HasGlycan(glycans_df)
     THEN /\ LET r == MainSide(GlycanColumn(glycans_df), glycoletter)
             IN ret' = [NoRet EXCEPT !.status = "returned", !.main = r.main,
                                     !.side = r.side]
          /\ pc' = "done"
     ELSE /\ ret' = [NoRet EXCEPT !.status = "raised", !.exc = "AttributeError"]
          /\ pc' = "raised"
  /\ UNCHANGED <<df_species, fn, glycoletter, mode, taxonomy_filter,
                 taxonomy_value, glycans_df, pool, lab, cou, cou_k, cou_v>>

\* characterize_context(glycoletter, mode, taxonomy_filter, taxonomy_value)
CallContext(letter, m, filter, value) ==
  /\ Idle
  /\ pc' = "ctx_filter"
  /\ fn' = "characterize_context"
  /\ glycoletter' = letter
  /\ mode' = m
  /\ taxonomy_filter' = filter
  /\ taxonomy_value' = value
  /\ Locals
  /\ UNCHANGED df_species

\* lines 42-52: glycans_df
CtxFilter ==
  /\ pc = "ctx_filter"
  /\ glycans_df' = TaxonomicFilter(df_species, taxonomy_filter, taxonomy_value)
  /\ pc' = "ctx_pool"
  /\ UNCHANGED <<df_species, fn, glycoletter, mode, taxonomy_filter,
                 taxonomy_value, pool, lab, cou, cou_k, cou_v, ret>>

\* lines 54-55: the bond triples of every glycan, in one list; line 54
\* raises AttributeError when glycans_df has no glycan column
CtxPool ==
  /\ pc = "ctx_pool"
  /\ IF HasGlycan(glycans_df)
     THEN /\ pool' = LinkPool(glycans_df)
          /\ ret' = ret
          /\ pc' = "ctx_select"
     ELSE /\ pool' = pool
          /\ ret' = [NoRet EXCEPT !.status = "raised", !.exc = "AttributeError"]
          /\ pc' = "raised"
  /\ UNCHANGED <<df_species, fn, glycoletter, mode, taxonomy_filter,
                 taxonomy_value, glycans_df, lab, cou, cou_k, cou_v>>

\* lines 56-64: the partners of glycoletter and the label of the mode
CtxSelect ==
  /\ pc = "ctx_select"
  /\ pool' = SelectPool(pool, mode, glycoletter)
  /\ lab' = SelectLab(mode, glycoletter)
  /\ pc' = "ctx_tally"
  /\ UNCHANGED <<df_species, fn, glycoletter, mode, taxonomy_filter,
                 taxonomy_value, glycans_df, cou, cou_k, cou_v, ret>>

\* lines 65-67: cou, cou_k, cou_v
CtxTally ==
  /\ pc = "ctx_tally"
  /\ LET c == most_common(Counter(pool), 1, << >>)
         kept == KeepFrequent(c, 1)
     IN /\ cou' = c
        /\ cou_k' = [i \in 1..Len(kept) |-> kept[i].k]
        /\ cou_v' = [i \in 1..Len(kept) |-> kept[i].n]
  /\ pc' = "ctx_label"
  /\ UNCHANGED <<df_species, fn, glycoletter, mode, taxonomy_filter,
                 taxonomy_value, glycans_df, pool, lab, ret>>

\* lines 69-71: lab is rebound to itself with the filter appended and
\* returned; reading the unbound lab raises UnboundLocalError and leaves
\* it unbound
CtxLabel ==
  /\ pc = "ctx_label"
  /\ IF lab.bound
     THEN /\ lab' = [lab EXCEPT
                       !.text = @ \o Suffix(taxonomy_filter, taxonomy_value)]
          /\ ret' = [NoRet EXCEPT !.status = "returned", !.lab = lab'.text,
                                  !.cou_k = cou_k, !.cou_v = cou_v]
          /\ pc' = "done"
     ELSE /\ lab' = lab
          /\ ret' = [NoRet EXCEPT !.status = "raised",
                                  !.exc = "UnboundLocalError"]
          /\ pc' = "raised"
  /\ UNCHANGED <<df_species, fn, glycoletter, mode, taxonomy_filter,
                 taxonomy_value, glycans_df, pool, cou, cou_k, cou_v>>

\* the caller has the result or the exception: the frame is gone
Return ==
  /\ pc \in {"done", "raised"}
  /\ pc' = "idle"
  /\ fn' = "none"
  /\ glycoletter' = << >>
  /\ mode' = << >>
  /\ taxonomy_filter' = << >>
  /\ taxonomy_value' = << >>
  /\ Locals
  /\ UNCHANGED df_species

InitCall ==
  /\ pc = "idle"
  /\ fn = "none"
  /\ glycoletter = << >>
  /\ mode = << >>
  /\ taxonomy_filter = << >>
  /\ taxonomy_value = << >>
  /\ glycans_df = NoFrame
  /\ pool = << >>
  /\ lab = Unbound
  /\ cou = << >>
  /\ cou_k = << >>
  /\ cou_v = << >>
  /\ ret = NoRet

\* the module after import: df_species is loaded, nothing was called
Init == df_species \in Tables /\ InitCall

Next ==
  \/ \E letter \in Glycoletters, filter \in TaxonomyFilters,
        value \in TaxonomyValues : CallMain(letter, filter, value)
  \/ MvsFilter
  \/ MvsCount
  \/ \E letter \in Glycoletters, m \in ModeArgs, filter \in TaxonomyFilters,
        value \in TaxonomyValues : CallContext(letter, m, filter, value)
  \/ CtxFilter
  \/ CtxPool
  \/ CtxSelect
  \/ CtxTally
  \/ CtxLabel
  \/ Return

Spec == Init /\ [][Next]_vars

\* main_v_side_branch alone, over every bracket string up to MaxLen
InitBranch == df_species \in BranchTables /\ InitCall

NextBranch ==
  \/ \E letter \in BranchLetters, filter \in TaxonomyFilters,
        value \in TaxonomyValues : CallMain(letter, filter, value)
  \/ MvsFilter
  \/ MvsCount
  \/ Return

SpecBranch == InitBranch /\ [][NextBranch]_vars

(* ----------------- the two functions, call to return ----------------- *)
\* main_v_side_branch from its arguments to its return value or its
\* exception
main_v_side_branch(df, letter, filter, value) ==
  LET frame == TaxonomicFilter(df, filter, value)
      r == MainSide(GlycanColumn(frame), letter)
  IN IF HasGlycan(frame)
     THEN [NoRet EXCEPT !.status = "returned", !.main = r.main, !.side = r.side]
     ELSE [NoRet EXCEPT !.status = "raised", !.exc = "AttributeError"]

\* characterize_context from its arguments to its return value or its
\* exception
characterize_context(df, letter, m, filter, value) ==
  LET frame == TaxonomicFilter(df, filter, value)
      selected == SelectPool(LinkPool(frame), m, letter)
      kept == KeepFrequent(most_common(Counter(selected), 1, << >>), 1)
  IN IF ~HasGlycan(frame)
     THEN [NoRet EXCEPT !.status = "raised", !.exc = "AttributeError"]
     ELSE IF ~SelectLab(m, letter).bound
     THEN [NoRet EXCEPT !.status = "raised", !.exc = "UnboundLocalError"]
     ELSE [NoRet EXCEPT
             !.status = "returned",
             !.lab = SelectLab(m, letter).text \o Suffix(filter, value),
             !.cou_k = [i \in 1..Len(kept) |-> kept[i].k],
             !.cou_v = [i \in 1..Len(kept) |-> kept[i].n]]

(* ------------------------ what the claims read ----------------------- *)
\* a record passes the filter: taxonomy_value is a substring of the
\* string form of its kingdom (filter 'Kingdom') or species (any other)
Passes(row, filter, value) ==
  IF filter = Kingdom THEN Contains(value, str(row.kingdom))
  ELSE Contains(value, str(row.species))

\* the filtered set as the specification words it
FilteredSet(df, filter, value) ==
  LET Test(row) == Passes(row, filter, value)
  IN IF value = All THEN df ELSE SelectSeq(df, Test)

\* the glycan strings of the filtered set of the running call
FilteredGlycans ==
  LET rows == FilteredSet(df_species, taxonomy_filter, taxonomy_value)
  IN [i \in 1..Len(rows) |-> rows[i].glycan]

\* the occurrences of the glycoletter: <<k, j>> is match j of glycan k
Occurrences(list, letter) ==
  UNION {{<<k, j>> : j \in 1..Len(finditer(letter, list[k]))} : k \in 1..Len(list)}

\* the text from the start of the previous occurrence (the start of the
\* string for the first) up to the start of occurrence o
Preceding(list, letter, o) ==
  LET s == list[o[1]]
      starts == finditer(letter, s)
      prev == IF o[2] = 1 THEN 0 ELSE starts[o[2] - 1]
  IN [p \in 1..(starts[o[2]] - prev) |-> s[prev + p]]

OpenOnly(text) ==
  /\ \E p \in 1..Len(text) : text[p] = Open
  /\ \A p \in 1..Len(text) : text[p] # Close

MainDone == pc = "done" /\ fn = "main_v_side_branch"
ContextDone == pc = "done" /\ fn = "characterize_context"

(* C1: main_v_side_branch counts an occurrence as side-branch exactly     *)
(* when the text from the start of the previous occurrence (position 0    *)
(* for the first) up to its own start holds '[' and no ']', and as        *)
(* main-chain otherwise; "Gal(b1-4)[Fuc(a1-3)]GlcNAc" alone with          *)
(* glycoletter "GlcNAc" gives (1, 0).                                     *)
C1_SideIffOpenBracketSincePrevious ==
  MainDone =>
    LET occ == Occurrences(FilteredGlycans, glycoletter)
        sides == {o \in occ : OpenOnly(Preceding(FilteredGlycans, glycoletter, o))}
    IN /\ ret.status = "returned"
       /\ ret.side = Cardinality(sides)
       /\ ret.main = Cardinality(occ \ sides)
       /\ (/\ FilteredGlycans = <<LewisX>>
           /\ glycoletter = <<"G","l","c","N","A","c">>) => (ret.main = 1 /\ ret.side = 0)

\* a call that met a side-branch occurrence and a main-chain occurrence
\* preceded by both brackets
C1_Witness ==
  /\ MainDone
  /\ \E o \in Occurrences(FilteredGlycans, glycoletter) :
       OpenOnly(Preceding(FilteredGlycans, glycoletter, o))
  /\ \E o \in Occurrences(FilteredGlycans, glycoletter) :
       LET text == Preceding(FilteredGlycans, glycoletter, o)
       IN HasChar(Open, text) /\ HasChar(Close, text)

(* C2: main + side is the number of non-overlapping matches of the        *)
(* glycoletter in the glycans of the filtered set.                        *)
C2_MainPlusSideIsMatchCount ==
  MainDone =>
    ret.main + ret.side = Cardinality(Occurrences(FilteredGlycans, glycoletter))

\* a filtered call over several glycans that counted in both counters
C2_Witness ==
  /\ MainDone
  /\ taxonomy_value # All
  /\ Len(FilteredGlycans) > 1
  /\ Len(FilteredGlycans) < Len(df_species)
  /\ ret.main > 0
  /\ ret.side > 0

\* brackets of s are balanced: never more ']' than '[', as many in all
Depth(s, n) ==
  Cardinality({p \in 1..n : s[p] = Open}) - Cardinality({p \in 1..n : s[p] = Close})

Balanced(s) == Depth(s, Len(s)) = 0 /\ \A n \in 0..Len(s) : Depth(s, n) >= 0

\* occurrence o starts inside a bracket pair
InBranch(list, letter, o) ==
  Depth(list[o[1]], finditer(letter, list[o[1]])[o[2]]) > 0

(* C3: for glycans with balanced brackets, side is the number of          *)
(* occurrences inside a bracketed side branch and main the number of      *)
(* occurrences outside every bracket pair.                                *)
C3_SideIffInsideBrackets ==
  (MainDone /\ \A k \in 1..Len(FilteredGlycans) : Balanced(FilteredGlycans[k])) =>
    LET occ == Occurrences(FilteredGlycans, glycoletter)
        inside == {o \in occ : InBranch(FilteredGlycans, glycoletter, o)}
    IN ret.side = Cardinality(inside) /\ ret.main = Cardinality(occ \ inside)

\* the field of a triple the mode matches against the glycoletter, and
\* the field it tallies: 0 the first sugar, 1 the bond, 2 the second sugar
KeyOf(m) == IF m = Bond THEN 1 ELSE 0
PartnerOf(m) == IF m = Bond THEN 0 ELSE IF m = Sugar THEN 2 ELSE 1

\* the pooled triples of the filtered set: <<k, j>> is triple j of glycan k
Triples ==
  UNION {{<<k, j>> : j \in 1..Len(link_find(FilteredGlycans[k]))} :
           k \in 1..Len(FilteredGlycans)}

TripleAt(t) == link_find(FilteredGlycans[t[1]])[t[2]]

\* the pooled triples whose key field is the glycoletter and whose
\* partner field is p
Hits(p) ==
  {t \in Triples : /\ split(TripleAt(t), Star)[KeyOf(mode) + 1] = glycoletter
                   /\ split(TripleAt(t), Star)[PartnerOf(mode) + 1] = p}

\* every field of every pooled triple, and every tallied element
Symbols ==
  UNION {{split(TripleAt(t), Star)[n] : n \in 1..3} : t \in Triples}
    \cup {cou[i].k : i \in 1..Len(cou)}

\* the count the tally holds for p, 0 when it has no entry
Tallied(p) ==
  IF \E i \in 1..Len(cou) : cou[i].k = p
  THEN (CHOOSE e \in {cou[i] : i \in 1..Len(cou)} : e.k = p).n
  ELSE 0

(* C4: per mode, characterize_context tallies the partner field of        *)
(* exactly the pooled triples whose key field equals the glycoletter;     *)
(* the count of a partner is the number of such triples in the whole      *)
(* filtered set.                                                          *)
C4_TallyOfExactKeyMatches ==
  ContextDone =>
    /\ \A p \in Symbols : Tallied(p) = Cardinality(Hits(p))
    /\ \A i \in 1..Len(ret.cou_k) : ret.cou_v[i] = Cardinality(Hits(ret.cou_k[i]))

\* a call for sugar Gal over a filtered set that holds GalNAc triples,
\* with partners reported
C4_Witness ==
  /\ ContextDone
  /\ mode = Sugar
  /\ glycoletter = <<"G","a","l">>
  /\ taxonomy_value # All
  /\ \E t \in Triples : split(TripleAt(t), Star)[1] = <<"G","a","l","N","A","c">>
  /\ Len(ret.cou_k) > 1

\* how often p stands in the list of partners that is tallied
PoolCount(p) == Cardinality({i \in 1..Len(pool) : pool[i] = p})

(* C5: a partner is returned if and only if its count is greater than     *)
(* 10, and the count returned at an index is the full count of the        *)
(* partner at that index.                                                 *)
C5_ReturnedIffCountAboveTen ==
  ContextDone =>
    /\ \A i \in 1..Len(pool) :
         (\E j \in 1..Len(ret.cou_k) : ret.cou_k[j] = pool[i]) <=> PoolCount(pool[i]) > 10
    /\ \A j \in 1..Len(ret.cou_k) : PoolCount(ret.cou_k[j]) > 10
    /\ Len(ret.cou_v) = Len(ret.cou_k)
    /\ \A j \in 1..Len(ret.cou_k) : ret.cou_v[j] = PoolCount(ret.cou_k[j])

\* a call with a partner counted exactly 10 times, left out, and a
\* partner counted more often, returned
C5_Witness ==
  /\ ContextDone
  /\ \E i \in 1..Len(pool) :
       /\ PoolCount(pool[i]) = 10
       /\ \A j \in 1..Len(ret.cou_k) : ret.cou_k[j] # pool[i]
  /\ Len(ret.cou_k) > 0

\* where p first stands in the list of partners that is tallied
FirstTallied(p) == CHOOSE i \in 1..Len(pool) : pool[i] = p /\ \A h \in 1..(i - 1) : pool[h] # p

(* C6: the returned lists are ordered by non-increasing count, partners   *)
(* of equal count in the order in which they were first tallied.          *)
C6_DescendingThenFirstTallied ==
  ContextDone =>
    \A i, j \in 1..Len(ret.cou_k) :
      i < j =>
        /\ ret.cou_v[i] >= ret.cou_v[j]
        /\ ret.cou_v[i] = ret.cou_v[j] =>
             FirstTallied(ret.cou_k[i]) < FirstTallied(ret.cou_k[j])

\* a call that returned a partner tallied later before one tallied
\* earlier, because it counts more
C6_Witness ==
  /\ ContextDone
  /\ \E i, j \in 1..Len(ret.cou_k) :
       /\ i < j
       /\ ret.cou_v[i] > ret.cou_v[j]
       /\ FirstTallied(ret.cou_k[i]) > FirstTallied(ret.cou_k[j])

\* a filter that is not 'All' and lets every record of the table pass
PassesAll(filter, value) ==
  /\ value # All
  /\ \A i \in 1..Len(df_species) : Passes(df_species[i], filter, value)

\* how the running call had ended, had it been made with another filter
SameCallWith(filter, value) ==
  IF fn = "main_v_side_branch"
  THEN main_v_side_branch(df_species, glycoletter, filter, value)
  ELSE characterize_context(df_species, glycoletter, mode, filter, value)

\* a label without its last n characters
DropLast(text, n) == SubSeq(text, 1, Len(text) - n)

(* C7 as claimed: with taxonomy_value 'All' the whole output of both      *)
(* functions, the label included, is the output for any filter that       *)
(* every record of the table passes.                                      *)
C7_AllEqualsEveryPassingFilter ==
  (pc = "done" /\ taxonomy_value = All) =>
    \A filter \in TaxonomyFilters, value \in TaxonomyValues :
      PassesAll(filter, value) => SameCallWith(filter, value) = ret

(* C7 as amended: over a reference table with records, a call with       *)
(* taxonomy_value 'All' and the same call with any filter that every      *)
(* record passes both return, with the same counts of main_v_side_branch  *)
(* and the same partners and counts of characterize_context; the labels   *)
(* are equal up to their last part, which spells the taxonomy_filter and  *)
(* taxonomy_value of the call. Over a reference table without records     *)
(* the call with 'All' returns and the call with any other                *)
(* taxonomy_value raises AttributeError.                                  *)
C7_AllEqualsEveryPassingFilterButLabel ==
  (pc = "done" /\ taxonomy_value = All) =>
    \A filter \in TaxonomyFilters, value \in TaxonomyValues :
      PassesAll(filter, value) =>
        LET other == SameCallWith(filter, value)
        IN IF df_species = << >>
           THEN /\ ret.status = "returned"
                /\ other.status = "raised"
                /\ other.exc = "AttributeError"
           ELSE
           /\ ret.status = "returned"
           /\ other.status = "returned"
           /\ other.main = ret.main
           /\ other.side = ret.side
           /\ other.cou_k = ret.cou_k
           /\ other.cou_v = ret.cou_v
           /\ fn = "characterize_context" =>
                /\ DropLast(other.lab, Len(Suffix(filter, value)))
                     = DropLast(ret.lab, Len(Suffix(taxonomy_filter, All)))
                /\ ret.lab = DropLast(ret.lab, Len(Suffix(taxonomy_filter, All)))
                               \o Suffix(taxonomy_filter, All)
                /\ other.lab = DropLast(other.lab, Len(Suffix(filter, value)))
                                 \o Suffix(filter, value)

\* a call with 'All' that returned partners, over a table every record
\* of which passes a filter on a value that is not empty
C7_Witness ==
  /\ ContextDone
  /\ taxonomy_value = All
  /\ Len(ret.cou_k) > 0
  /\ \E filter \in TaxonomyFilters, value \in TaxonomyValues :
       PassesAll(filter, value) /\ value # << >>

(* C8: a call of characterize_context with a mode other than 'bond',      *)
(* 'sugar', 'sugarbond' is rejected with an invalid-argument error        *)
(* before it filters, pools or tallies, and never returns.                *)
C8_UnknownModeRejectedAtOnce ==
  (fn = "characterize_context" /\ mode \notin Modes) =>
    /\ pc \in {"ctx_filter", "raised"}
    /\ pc = "raised" => ret.exc = "InvalidArgument"

\* the glycoletter stands in no glycan of the filtered set
Absent == \A k \in 1..Len(FilteredGlycans) : ~Contains(glycoletter, FilteredGlycans[k])

(* C9: when the glycoletter occurs in no glycan of the filtered set, an   *)
(* empty filtered set included, main_v_side_branch returns (0, 0) and     *)
(* characterize_context with a mode it knows returns its label with no    *)
(* partner and no count; neither ends in an error.                        *)
C9_AbsentGivesZeroAndEmpty ==
  (Absent /\ pc \in {"done", "raised"} /\ (fn = "characterize_context" => mode \in Modes)) =>
    /\ pc = "done"
    /\ ret.status = "returned"
    /\ ret.main = 0
    /\ ret.side = 0
    /\ ret.cou_k = << >>
    /\ ret.cou_v = << >>
    /\ fn = "characterize_context" =>
         ret.lab = SelectLab(mode, glycoletter).text
                     \o Suffix(taxonomy_filter, taxonomy_value)

\* the call has bound glycans_df
Filtered ==
  pc \in {"mvs_count", "ctx_pool", "ctx_select", "ctx_tally", "ctx_label",
          "done", "raised"}

(* C10: in both functions the filtered set is, in table order, every      *)
(* record for 'All' and otherwise the records whose kingdom (filter       *)
(* 'Kingdom') or species (any other filter) holds taxonomy_value as a     *)
(* substring of its string form; the reference table is never changed.    *)
C10_FilteredSetAndTableUntouched ==
  /\ [](Filtered => glycans_df.rows = FilteredSet(df_species, taxonomy_filter, taxonomy_value))
  /\ [][df_species' = df_species]_vars

\* a species filter on 'an' that keeps the records without species,
\* whose string form is 'nan', and drops the others
C10_Witness ==
  /\ Filtered
  /\ taxonomy_filter = Species
  /\ taxonomy_value = <<"a","n">>
  /\ Len(glycans_df.rows) > 0
  /\ Len(glycans_df.rows) < Len(df_species)
  /\ \A i \in 1..Len(glycans_df.rows) : glycans_df.rows[i].species.isna

=============================================================================
